---- MODULE Spec2Model ----
(***************************************************************************)
(* The DataTable component of src/components/DataTable.tsx as a state      *)
(* machine: the props the host passes (data, loading, selectable,          *)
(* onRowSelect), the component's three useState cells (sortKey, sortOrder, *)
(* selectedRows), what the last render put on screen (dom), and what the   *)
(* host's onRowSelect callback last received.                              *)
(*                                                                         *)
(* A record is [id, name]; rowKey is "id".  Names are single letters, and  *)
(* JavaScript's < on them is the order of the letters.                     *)
(***************************************************************************)
EXTENDS Integers, Sequences, FiniteSets

VARIABLES
    data,           \* prop data: the host's array of records
    loading,        \* prop loading
    selectable,     \* prop selectable
    hasOnRowSelect, \* whether the host supplied the prop onRowSelect
    sortKey,        \* useState sortKey: "null" or a dataIndex
    sortOrder,      \* useState sortOrder: "null", "asc" or "desc"
    selectedRows,   \* useState selectedRows
    dom,            \* what the last render displays
    lastNotified,   \* <<>> before any onRowSelect call, else <<payload of the last call>>
    field,          \* InputField: its props and its useState showPassword
    fieldDom,       \* what the last render of the InputField displays
    fieldFired      \* the host callback the last step fired: "none", "onChange", "onClear"

tableVars == <<data, loading, selectable, hasOnRowSelect, sortKey, sortOrder,
               selectedRows, dom, lastNotified>>

fieldVars == <<field, fieldDom, fieldFired>>

vars == <<tableVars, fieldVars>>

\* ---------------------------------------------------------------- bounds
MaxId == 2

Names == {"A", "B"}

Ids == 1..MaxId

Records == [id : Ids, name : Names]

\* rowKey="id" (the prop the host passes with the records)
rowKey(r) == r.id

Range(s) == {s[i] : i \in DOMAIN s}

\* Sequences over S of length at most n
RECURSIVE SeqsUpTo(_, _)
SeqsUpTo(S, n) ==
    IF n = 0 THEN {<<>>}
    ELSE LET shorter == SeqsUpTo(S, n - 1)
         IN  shorter \cup {Append(s, x) : s \in {t \in shorter : Len(t) = n - 1}, x \in S}

DistinctKeys(s) == \A i, j \in DOMAIN s : rowKey(s[i]) = rowKey(s[j]) => i = j

\* The arrays a host may pass as data: the row key identifies a record
\* (it is also the React key of the row).
DataSeqs == {s \in SeqsUpTo(Records, MaxId) : DistinctKeys(s)}

\* The column descriptors the host passes.
Columns == { [dataIndex |-> "id",   sortable |-> TRUE],
             [dataIndex |-> "name", sortable |-> TRUE] }

\* ---------------------------------------------------------------- sorting
NameOrder == <<"A", "B", "C", "D">>

NameRank(n) == CHOOSE i \in DOMAIN NameOrder : NameOrder[i] = n

\* a[key] < b[key] in JavaScript: numbers by value, strings by code units
FieldLess(a, b, key) ==
    IF key = "id" THEN a.id < b.id ELSE NameRank(a.name) < NameRank(b.name)

\* compare with the direction left out: every sort ascends
compareAscendingOnly(a, b, key, order) ==
    IF FieldLess(a, b, key) THEN -1
    ELSE IF FieldLess(b, a, key) THEN 1
    ELSE 0

\* The comparator handed to Array.prototype.sort
compare(a, b, key, order) ==
    IF FieldLess(a, b, key) THEN (IF order = "asc" THEN -1 ELSE 1)
    ELSE IF FieldLess(b, a, key) THEN (IF order = "asc" THEN 1 ELSE -1)
    ELSE 0

\* x placed into the sorted s behind every element that does not compare
\* greater than it
RECURSIVE InsertSorted(_, _, _, _)
InsertSorted(s, x, key, order) ==
    IF s = <<>> THEN <<x>>
    ELSE IF compare(s[Len(s)], x, key, order) <= 0 THEN Append(s, x)
    ELSE Append(InsertSorted(SubSeq(s, 1, Len(s) - 1), x, key, order), s[Len(s)])

\* Array.prototype.sort with the comparator: a stable sort (ECMAScript 2019)
RECURSIVE ArraySort(_, _, _)
ArraySort(arr, key, order) ==
    IF arr = <<>> THEN <<>>
    ELSE InsertSorted(ArraySort(SubSeq(arr, 1, Len(arr) - 1), key, order),
                      arr[Len(arr)], key, order)

Reverse(s) == [i \in DOMAIN s |-> s[Len(s) + 1 - i]]

\* sortedData with descending obtained as the ascending order reversed
sortedDataReverseDesc(d, key, order) ==
    IF key = "null" \/ order = "null" THEN [result |-> d, host |-> d]
    ELSE IF order = "asc" THEN [result |-> ArraySort(d, key, "asc"), host |-> d]
    ELSE [result |-> Reverse(ArraySort(d, key, "asc")), host |-> d]

\* sortedData with data.sort(...) in place of [...data].sort(...)
sortedDataInPlace(d, key, order) ==
    IF key = "null" \/ order = "null" THEN [result |-> d, host |-> d]
    ELSE [result |-> ArraySort(d, key, order), host |-> ArraySort(d, key, order)]

\* useMemo sortedData: result is what the memo returns, host is the host's
\* array after the computation (sort works in place, on the copy [...data])
sortedData(d, key, order) ==
    IF key = "null" \/ order = "null" THEN [result |-> d, host |-> d]
    ELSE [result |-> ArraySort(d, key, order), host |-> d]

\* ---------------------------------------------------------------- handlers
\* handleSort with a third click that clears the sort
handleSortThreeState(sk, so, key) ==
    IF sk = key
    THEN IF so = "asc" THEN <<sk, "desc">>
         ELSE IF so = "desc" THEN <<"null", "null">>
         ELSE <<sk, "asc">>
    ELSE <<key, "asc">>

\* handleSort: the new <<sortKey, sortOrder>>
handleSort(sk, so, key) ==
    IF sk = key THEN <<sk, IF so = "asc" THEN "desc" ELSE "asc">>
    ELSE <<key, "asc">>

\* prev.some((r) => r[rowKey] === row[rowKey])
SomeKey(rows, row) == \E i \in DOMAIN rows : rowKey(rows[i]) = rowKey(row)

\* prev.filter((r) => r[rowKey] !== row[rowKey])
RECURSIVE FilterOutKey(_, _)
FilterOutKey(rows, row) ==
    IF rows = <<>> THEN <<>>
    ELSE LET rest == FilterOutKey(SubSeq(rows, 1, Len(rows) - 1), row)
             last == rows[Len(rows)]
         IN  IF rowKey(last) # rowKey(row) THEN Append(rest, last) ELSE rest

\* handleSelectRow comparing the records themselves instead of their keys
handleSelectRowByReference(prev, row) ==
    IF \E i \in DOMAIN prev : prev[i] = row
    THEN LET Other(r) == r # row IN SelectSeq(prev, Other)
    ELSE Append(prev, row)

\* handleSelectRow with the filter's test inverted (=== for !==)
handleSelectRowKeepsRow(prev, row) ==
    IF SomeKey(prev, row)
    THEN LET Same(r) == rowKey(r) = rowKey(row) IN SelectSeq(prev, Same)
    ELSE Append(prev, row)

\* handleSelectRow: newSelection
handleSelectRow(prev, row) ==
    IF SomeKey(prev, row) THEN FilterOutKey(prev, row) ELSE Append(prev, row)

\* handleSelectAll adding data to the selection instead of replacing it
handleSelectAllAppends(prev, d) ==
    IF Len(prev) = Len(d) THEN <<>> ELSE prev \o d

\* handleSelectAll: newSelection
handleSelectAll(prev, d) ==
    IF Len(prev) = Len(d) THEN <<>> ELSE d

\* The callback skipped when the new selection is empty
CallsOnRowSelectNonEmpty(has, newSelection) == has /\ newSelection # <<>>

\* if (onRowSelect) onRowSelect(newSelection): is the callback invoked
CallsOnRowSelect(has, newSelection) == has

\* isAllSelected without the test that data is non-empty
isAllSelectedLengthOnly(sel, d) == Len(sel) = Len(d)

isAllSelected(sel, d) == Len(d) > 0 /\ Len(sel) = Len(d)

\* isIndeterminate without the comparison to data.length
isIndeterminateAnySelected(sel, d) == Len(sel) > 0 /\ Len(sel) # Len(d)

isIndeterminate(sel, d) == Len(sel) > 0 /\ Len(sel) < Len(d)

\* ---------------------------------------------------------------- render
\* The return statement with the data test before the loading test
RenderedBodiesDataFirst(ld, d) ==
    IF Len(d) > 0 THEN {"TableBody"}
    ELSE IF ld THEN {"LoadingState"}
    ELSE {"EmptyState"}

\* The table bodies the return statement renders
RenderedBodies(ld, d) ==
    IF ld THEN {"LoadingState"}
    ELSE IF Len(d) > 0 THEN {"TableBody"}
    ELSE {"EmptyState"}

\* What one render displays
Render(d, ld, sel, sk, so, canSelect) ==
    LET bodies == RenderedBodies(ld, d)
        rows   == IF "TableBody" \in bodies THEN sortedData(d, sk, so).result ELSE <<>>
    IN  [ body          |-> bodies,
          rows          |-> rows,
          rowChecked    |-> [i \in DOMAIN rows |-> canSelect /\ SomeKey(sel, rows[i])],
          rowHighlight  |-> [i \in DOMAIN rows |-> SomeKey(sel, rows[i])],
          allChecked    |-> canSelect /\ isAllSelected(sel, d),
          indeterminate |-> canSelect /\ isIndeterminate(sel, d) ]

\* ---------------------------------------------------------------- InputField
\* The values the host holds for the controlled input
Values == {"", "secret", "hunter2"}

\* The type prop: the default, password, and another standard kind
Types == {"text", "password", "email"}

\* errorMessage and helperText: <<>> when the prop is not supplied, else <<text>>
ErrorTexts == {<<>>, <<"">>, <<"Invalid">>}

HelperTexts == {<<>>, <<"">>, <<"Hint">>}

\* JavaScript truthiness of an optional string
Truthy(text) == text # <<>> /\ text[1] # ""

FieldProps ==
    [ value : Values, type : Types, disabled : BOOLEAN, invalid : BOOLEAN,
      loading : BOOLEAN, errorMessage : ErrorTexts, helperText : HelperTexts,
      onClear : BOOLEAN, showPassword : {FALSE} ]

isPassword(type) == type = "password"

\* !!onClear && value && value.length > 0
hasClearButton(onClear, value) == onClear /\ value # ""

\* The input's type with the reveal flag applied to every kind of input
InputTypeAnyKind(type, showPassword) == IF showPassword THEN "text" ELSE type

\* type={isPassword && showPassword ? 'text' : type}
InputType(type, showPassword) ==
    IF isPassword(type) /\ showPassword THEN "text" ELSE type

\* The input disabled by the disabled prop alone
InputDisabledFlagOnly(disabled, ld) == disabled

\* disabled={disabled || loading}
InputDisabled(disabled, ld) == disabled \/ ld

\* loading && <IconWrapper position="left">: what fills the leading slot
LeftIcon(ld) == IF ld THEN {"Loader2"} ELSE {}

\* The message with no helper text whenever invalid is set
MessageNoFallback(invalid, errorMessage, helperText) ==
    IF invalid
    THEN (IF Truthy(errorMessage)
          THEN {[kind |-> "error", text |-> errorMessage[1]]} ELSE {})
    ELSE IF Truthy(helperText) THEN {[kind |-> "helper", text |-> helperText[1]]}
    ELSE {}

\* invalid && errorMessage ? <p error> : helperText ? <p helper> : null
Message(invalid, errorMessage, helperText) ==
    IF invalid /\ Truthy(errorMessage)
    THEN {[kind |-> "error", text |-> errorMessage[1]]}
    ELSE IF Truthy(helperText) THEN {[kind |-> "helper", text |-> helperText[1]]}
    ELSE {}

\* What one render of the InputField displays
FieldRender(f) ==
    [ type         |-> InputType(f.type, f.showPassword),
      value        |-> f.value,
      disabled     |-> InputDisabled(f.disabled, f.loading),
      leftIcon     |-> LeftIcon(f.loading),
      clearButton  |-> hasClearButton(f.onClear, f.value),
      revealButton |-> isPassword(f.type),
      message      |-> Message(f.invalid, f.errorMessage, f.helperText) ]

\* An InputField with the default props, left alone
FieldParked ==
    /\ field = [ value |-> "", type |-> "text", disabled |-> FALSE,
                 invalid |-> FALSE, loading |-> FALSE, errorMessage |-> <<>>,
                 helperText |-> <<>>, onClear |-> FALSE, showPassword |-> FALSE ]
    /\ fieldDom = FieldRender(field)
    /\ fieldFired = "none"

\* ---------------------------------------------------------------- actions
Init ==
    /\ data \in DataSeqs
    /\ loading \in BOOLEAN
    /\ selectable \in BOOLEAN
    /\ hasOnRowSelect \in BOOLEAN
    /\ sortKey = "null"
    /\ sortOrder = "null"
    /\ selectedRows = <<>>
    /\ lastNotified = <<>>
    /\ dom = Render(data, loading, <<>>, "null", "null", selectable)
    /\ FieldParked

\* The re-render that follows a state or prop change; the memo runs on the
\* host's array.
Rerender(d, ld, sel, sk, so) ==
    /\ data' = sortedData(d, sk, so).host
    /\ dom' = Render(data', ld, sel, sk, so, selectable)

\* handleSort that also clears the selection and tells the host
ClickHeaderClearsSelection(col) ==
    /\ col.sortable
    /\ LET new == handleSort(sortKey, sortOrder, col.dataIndex)
       IN  /\ sortKey' = new[1]
           /\ sortOrder' = new[2]
           /\ Rerender(data, loading, <<>>, new[1], new[2])
    /\ selectedRows' = <<>>
    /\ lastNotified' = IF hasOnRowSelect THEN << <<>> >> ELSE lastNotified
    /\ UNCHANGED <<loading, selectable, hasOnRowSelect>>
    /\ UNCHANGED fieldVars

\* A click on the header button of a sortable column
ClickHeader(col) ==
    /\ col.sortable
    /\ LET new == handleSort(sortKey, sortOrder, col.dataIndex)
       IN  /\ sortKey' = new[1]
           /\ sortOrder' = new[2]
           /\ Rerender(data, loading, selectedRows, new[1], new[2])
    /\ UNCHANGED <<loading, selectable, hasOnRowSelect, selectedRows, lastNotified>>
    /\ UNCHANGED fieldVars

\* A selection handler's setSelectedRows updater and the render after it
Select(newSelection) ==
    /\ selectedRows' = newSelection
    /\ lastNotified' = IF CallsOnRowSelect(hasOnRowSelect, newSelection)
                       THEN <<newSelection>> ELSE lastNotified
    /\ Rerender(data, loading, newSelection, sortKey, sortOrder)
    /\ UNCHANGED <<loading, selectable, hasOnRowSelect, sortKey, sortOrder>>
    /\ UNCHANGED fieldVars

\* A click on the checkbox of the i-th displayed row
ClickRowCheckbox(i) ==
    /\ selectable
    /\ i \in DOMAIN dom.rows
    /\ Select(handleSelectRow(selectedRows, dom.rows[i]))

\* A click on the header's select-all checkbox
ClickSelectAll ==
    /\ selectable
    /\ Select(handleSelectAll(selectedRows, data))

\* The arrays one host update away from d: the host clears the list, drops
\* a record or adds one.  Every array of DataSeqs is reached by such updates.
NextData(d) ==
    {<<>>}
      \cup {SubSeq(d, 1, i - 1) \o SubSeq(d, i + 1, Len(d)) : i \in DOMAIN d}
      \cup {Append(d, r) : r \in {x \in Records : ~SomeKey(d, x) /\ Len(d) < MaxId}}

\* The host passes another array as data
HostSetData(d) ==
    /\ d # data
    /\ Rerender(d, loading, selectedRows, sortKey, sortOrder)
    /\ UNCHANGED <<loading, selectable, hasOnRowSelect, sortKey, sortOrder,
                   selectedRows, lastNotified>>
    /\ UNCHANGED fieldVars

\* The host flips the loading prop
HostSetLoading ==
    /\ loading' = ~loading
    /\ Rerender(data, loading', selectedRows, sortKey, sortOrder)
    /\ UNCHANGED <<selectable, hasOnRowSelect, sortKey, sortOrder,
                   selectedRows, lastNotified>>
    /\ UNCHANGED fieldVars

Next ==
    \/ \E col \in Columns : ClickHeader(col)
    \/ \E i \in 1..MaxId : ClickRowCheckbox(i)
    \/ ClickSelectAll
    \/ \E d \in NextData(data) : HostSetData(d)
    \/ HostSetLoading

Spec == Init /\ [][Next]_vars

\* The table under a host that keeps passing the array it mounted with
NextFixedData ==
    \/ \E col \in Columns : ClickHeader(col)
    \/ \E i \in 1..MaxId : ClickRowCheckbox(i)
    \/ ClickSelectAll
    \/ HostSetLoading

SpecFixedData == Init /\ [][NextFixedData]_vars

\* ---------------------------------------------------------------- InputField actions
\* A DataTable with no data, left alone
TableParked ==
    /\ data = <<>> /\ loading = FALSE /\ selectable = FALSE /\ hasOnRowSelect = FALSE
    /\ sortKey = "null" /\ sortOrder = "null"
    /\ selectedRows = <<>> /\ lastNotified = <<>>
    /\ dom = Render(<<>>, FALSE, <<>>, "null", "null", FALSE)

InitField ==
    /\ field \in FieldProps
    /\ fieldDom = FieldRender(field)
    /\ fieldFired = "none"
    /\ TableParked

\* A click on the reveal button: setShowPassword(!showPassword)
ClickReveal ==
    /\ fieldDom.revealButton
    /\ field' = [field EXCEPT !.showPassword = ~field.showPassword]
    /\ fieldFired' = "none"
    /\ fieldDom' = FieldRender(field')
    /\ UNCHANGED tableVars

\* A keystroke in the enabled input: onChange fires and the host stores v
TypeInput(v) ==
    /\ ~fieldDom.disabled
    /\ v # field.value
    /\ field' = [field EXCEPT !.value = v]
    /\ fieldFired' = "onChange"
    /\ fieldDom' = FieldRender(field')
    /\ UNCHANGED tableVars

\* A click on the clear button: onClear fires and the host empties the value
ClickClear ==
    /\ fieldDom.clearButton
    /\ field' = [field EXCEPT !.value = ""]
    /\ fieldFired' = "onClear"
    /\ fieldDom' = FieldRender(field')
    /\ UNCHANGED tableVars

\* The host passes another value for one prop
HostSetFieldProp(f) ==
    /\ f # field
    /\ field' = f
    /\ fieldFired' = "none"
    /\ fieldDom' = FieldRender(field')
    /\ UNCHANGED tableVars

\* field with one of its props other than value replaced
OnePropChanged(f) ==
    {[f EXCEPT !.type = t] : t \in Types}
      \cup {[f EXCEPT !.disabled = b] : b \in BOOLEAN}
      \cup {[f EXCEPT !.invalid = b] : b \in BOOLEAN}
      \cup {[f EXCEPT !.loading = b] : b \in BOOLEAN}
      \cup {[f EXCEPT !.onClear = b] : b \in BOOLEAN}
      \cup {[f EXCEPT !.errorMessage = t] : t \in ErrorTexts}
      \cup {[f EXCEPT !.helperText = t] : t \in HelperTexts}

NextField ==
    \/ ClickReveal
    \/ \E v \in Values : TypeInput(v)
    \/ ClickClear
    \/ \E f \in OnePropChanged(field) : HostSetFieldProp(f)

SpecField == InitField /\ [][NextField]_vars

\* ---------------------------------------------------------------- properties
TypeOK ==
    /\ data \in DataSeqs
    /\ loading \in BOOLEAN /\ selectable \in BOOLEAN /\ hasOnRowSelect \in BOOLEAN
    /\ sortKey \in {"null", "id", "name"}
    /\ sortOrder \in {"null", "asc", "desc"}
    /\ (sortKey = "null") <=> (sortOrder = "null")
    /\ DistinctKeys(selectedRows)
    /\ Range(selectedRows) \subseteq Records
    /\ Len(lastNotified) <= 1

\* The number of times record r occurs in s
Count(s, r) == Cardinality({i \in DOMAIN s : s[i] = r})

IsPermutation(s, t) == Len(s) = Len(t) /\ \A r \in Records : Count(s, r) = Count(t, r)

\* The place of record r in s (the records of a data array are distinct)
Pos(s, r) == CHOOSE i \in DOMAIN s : s[i] = r

IdsOf(s) == [i \in DOMAIN s |-> s[i].id]

\* C1: every render shows exactly one of the loading, empty and populated
\* states: loading whenever the loading flag is set (even with data), else
\* empty whenever data is empty, else populated, whatever the other flags.
C1_DisplayState ==
    /\ Cardinality(dom.body) = 1
    /\ dom.body \subseteq {"LoadingState", "EmptyState", "TableBody"}
    /\ loading => dom.body = {"LoadingState"}
    /\ (~loading /\ data = <<>>) => dom.body = {"EmptyState"}
    /\ (~loading /\ data # <<>>) => dom.body = {"TableBody"}

\* The loading state shown over non-empty data, after sorting and selecting
C1_Witness ==
    /\ loading /\ Len(data) = MaxId /\ selectedRows # <<>> /\ sortOrder = "desc"
    /\ dom.body = {"LoadingState"} /\ dom.rows = <<>>

\* C2: a click on the header of column k leaves sortKey = k, with direction
\* desc if k was the sort column in direction asc and asc in every other
\* case; once sorted, the table never returns to unsorted.
C2_HeaderClick ==
    [][ /\ \A col \in Columns :
             ClickHeader(col) =>
                /\ sortKey' = col.dataIndex
                /\ sortOrder' = IF sortKey = col.dataIndex /\ sortOrder = "asc"
                                THEN "desc" ELSE "asc"
        /\ (sortKey # "null" \/ sortOrder # "null") =>
                (sortKey' # "null" /\ sortOrder' # "null")
      ]_vars

\* The second click on one header: descending
C2_Witness == sortKey = "name" /\ sortOrder = "desc" /\ Len(data) = MaxId

\* C3: the displayed rows are a permutation of data, non-decreasing in the
\* sort column when ascending, non-increasing when descending, and data
\* itself when no sort is active; [{1,B},{2,A}] by name shows ids [2,1]
\* ascending and [1,2] descending.
C3_SortedDisplay ==
    "TableBody" \in dom.body =>
        /\ IsPermutation(dom.rows, data)
        /\ sortOrder = "null" => dom.rows = data
        /\ sortOrder = "asc" =>
              \A i, j \in DOMAIN dom.rows :
                  i < j => ~FieldLess(dom.rows[j], dom.rows[i], sortKey)
        /\ sortOrder = "desc" =>
              \A i, j \in DOMAIN dom.rows :
                  i < j => ~FieldLess(dom.rows[i], dom.rows[j], sortKey)
        /\ (data = <<[id |-> 1, name |-> "B"], [id |-> 2, name |-> "A"]>>
              /\ sortKey = "name") =>
              IdsOf(dom.rows) = IF sortOrder = "asc" THEN <<2, 1>> ELSE <<1, 2>>

\* The scenario's table, sorted by name ascending
C3_Witness ==
    /\ data = <<[id |-> 1, name |-> "B"], [id |-> 2, name |-> "A"]>>
    /\ sortKey = "name" /\ sortOrder = "asc"
    /\ IdsOf(dom.rows) = <<2, 1>>

\* C4: in both directions, two records with equal values in the sort column
\* are displayed in the relative order they have in data.
C4_StableSort ==
    ("TableBody" \in dom.body /\ sortKey # "null") =>
        \A i, j \in DOMAIN data :
            (i < j /\ ~FieldLess(data[i], data[j], sortKey)
                   /\ ~FieldLess(data[j], data[i], sortKey))
               => Pos(dom.rows, data[i]) < Pos(dom.rows, data[j])

\* A tie displayed in descending direction, in the order of data
C4_Witness ==
    /\ sortKey = "name" /\ sortOrder = "desc" /\ Len(dom.rows) >= 2
    /\ dom.rows[1].name = dom.rows[2].name
    /\ data[1].id > data[2].id
    /\ dom.rows = data

\* C5: no header click, row toggle, select-all click or re-sort changes the
\* host's data array; sorting reorders only what is displayed.
C5_DataUntouched ==
    [][ /\ ( \/ \E col \in Columns : ClickHeader(col)
             \/ \E i \in 1..MaxId : ClickRowCheckbox(i)
             \/ ClickSelectAll
             \/ HostSetLoading ) => data' = data
        /\ \A d \in NextData(data) : HostSetData(d) => data' = d
      ]_vars

\* A display order different from the host's order, with rows selected
C5_Witness ==
    /\ "TableBody" \in dom.body /\ dom.rows # data
    /\ sortOrder = "desc" /\ selectedRows # <<>> /\ Len(data) = MaxId

\* C6: a row toggle compares row keys: when a selected record has the key
\* of the clicked row r, every selected record of that key is removed and
\* the others keep their order; otherwise r is appended at the end.
C6_ToggleByKey ==
    [][ \A i \in 1..MaxId :
          ClickRowCheckbox(i) =>
            LET r == dom.rows[i]
                OtherKey(x) == x.id # r.id
            IN  selectedRows' =
                  IF \E x \in Range(selectedRows) : x.id = r.id
                  THEN SelectSeq(selectedRows, OtherKey)
                  ELSE Append(selectedRows, r)
      ]_vars

\* Two rows selected in the order opposite to the one displayed
C6_Witness ==
    /\ sortOrder = "null" /\ "TableBody" \in dom.body
    /\ Len(selectedRows) = 2 /\ Len(dom.rows) = 2
    /\ selectedRows = <<dom.rows[2], dom.rows[1]>>
    /\ lastNotified = <<selectedRows>>

\* C7: with onRowSelect supplied, every change of the selection invokes it
\* with the whole new selection, so the payload of the last invocation is
\* the current selection.
C7_CallbackCarriesSelection ==
    /\ [](hasOnRowSelect =>
            \/ lastNotified = <<selectedRows>>
            \/ (lastNotified = <<>> /\ selectedRows = <<>>))
    /\ [][ (hasOnRowSelect /\ selectedRows' # selectedRows)
              => lastNotified' = <<selectedRows'>> ]_vars

\* The host was told of a partial selection of whole records
C7_Witness ==
    /\ hasOnRowSelect /\ lastNotified = <<selectedRows>>
    /\ Len(selectedRows) >= 1 /\ Len(selectedRows) < Len(data)
    /\ Range(selectedRows) \subseteq Range(data)

\* C8: a select-all click empties the selection when every record of data
\* was already selected and otherwise selects data, in the host's order.
C8_SelectAllToggles ==
    [][ ClickSelectAll =>
          selectedRows' = IF \A i \in DOMAIN data : SomeKey(selectedRows, data[i])
                          THEN <<>> ELSE data ]_vars

\* C9: with all rows selected by select-all, a toggle of row r leaves
\* |data| - 1 selected records: every record of data but r, none with r's key.
C9_SelectAllThenToggle ==
    [][ \A i \in 1..MaxId :
          (selectedRows = data /\ ClickRowCheckbox(i)) =>
            LET r == dom.rows[i]
            IN  /\ Len(selectedRows') = Len(data) - 1
                /\ ~SomeKey(selectedRows', r)
                /\ \A j \in DOMAIN data :
                      data[j] # r => data[j] \in Range(selectedRows')
      ]_vars

\* All of data but its first record selected, in the host's order
C9_Witness ==
    /\ Len(data) = MaxId /\ "TableBody" \in dom.body
    /\ selectedRows = Tail(data)
    /\ ~dom.rowChecked[Pos(dom.rows, data[1])]
    /\ dom.indeterminate
    /\ lastNotified = <<selectedRows>>

\* C10: with data empty, a select-all click changes nothing displayed and
\* the callback has never a non-empty payload from it.
C10_SelectAllOnEmpty ==
    [][ (ClickSelectAll /\ data = <<>>) =>
            /\ dom' = dom
            /\ lastNotified' \in {<<>>, << <<>> >>}
      ]_vars

\* Empty data under a selection left from earlier data, select-all offered
C10_Witness ==
    /\ data = <<>> /\ selectable /\ hasOnRowSelect
    /\ Len(selectedRows) = MaxId
    /\ ~dom.allChecked /\ ~dom.indeterminate

\* C11: the select-all control is checked iff the selection has the size of
\* data and data is non-empty, indeterminate iff the selection is non-empty
\* and smaller than data, unchecked otherwise; never checked and
\* indeterminate at once.
C11_TriState ==
    selectable =>
        /\ dom.allChecked <=> (Len(selectedRows) = Len(data) /\ Len(data) > 0)
        /\ dom.indeterminate <=> (Len(selectedRows) > 0 /\ Len(selectedRows) < Len(data))
        /\ ~(dom.allChecked /\ dom.indeterminate)
        /\ Cardinality({v \in {"checked", "indeterminate", "unchecked"} :
              \/ v = "checked" /\ dom.allChecked
              \/ v = "indeterminate" /\ dom.indeterminate
              \/ v = "unchecked" /\ ~dom.allChecked /\ ~dom.indeterminate}) = 1

\* The control indeterminate over a partial selection made by a row toggle
C11_Witness ==
    /\ selectable /\ dom.indeterminate /\ ~dom.allChecked
    /\ Len(data) = MaxId /\ Len(selectedRows) = 1
    /\ dom.rowChecked[Pos(dom.rows, selectedRows[1])]

\* C12: while the host keeps the same data array, every selected record has
\* the key of a record of data and no two selected records share a key.
C12_SelectedKeysInData ==
    /\ \A i \in DOMAIN selectedRows : SomeKey(data, selectedRows[i])
    /\ DistinctKeys(selectedRows)

\* Every row selected one by one, in an order other than the host's
C12_Witness ==
    /\ Len(data) = MaxId /\ Len(selectedRows) = MaxId
    /\ selectedRows # data
    /\ dom.allChecked

\* The records whose row checkbox a render shows checked
CheckedRecords(shown) ==
    {shown.rows[i] : i \in {j \in DOMAIN shown.rows : shown.rowChecked[j]}}

\* C16: a header click leaves the selection as it is and does not call
\* onRowSelect, and the rows shown as selected stay the same records; a row
\* toggle or select-all click leaves sortKey and sortOrder as they are.
C16_SortSelectionIndependent ==
    [][ /\ \A col \in Columns :
             ClickHeader(col) =>
                /\ selectedRows' = selectedRows
                /\ lastNotified' = lastNotified
                /\ CheckedRecords(dom') = CheckedRecords(dom)
                /\ IsPermutation(dom'.rows, dom.rows)
        /\ (ClickSelectAll \/ \E i \in 1..MaxId : ClickRowCheckbox(i)) =>
                (sortKey' = sortKey /\ sortOrder' = sortOrder)
      ]_vars

\* A sorted display in another order than data with one row of two checked
C16_Witness ==
    /\ sortOrder = "desc" /\ "TableBody" \in dom.body /\ dom.rows # data
    /\ Len(selectedRows) = 1 /\ Len(data) = MaxId
    /\ dom.rowChecked[Pos(dom.rows, selectedRows[1])]
    /\ Cardinality(CheckedRecords(dom)) = 1
    /\ lastNotified = <<selectedRows>>

\* Every record of d has its key in the selection sel
AllSelected(sel, d) == \A i \in DOMAIN d : SomeKey(sel, d[i])

\* C17: after every step, also one in which the host replaces data, the
\* select-all control is checked only if every record of data is selected,
\* and a select-all click made while a record of data is unselected leaves
\* every record of data selected.
C17_CheckedMeansAllSelected ==
    [][ /\ dom'.allChecked => AllSelected(selectedRows', data')
        /\ (ClickSelectAll /\ ~AllSelected(selectedRows, data))
              => AllSelected(selectedRows', data')
      ]_vars

\* C13: the input is rendered as plain text iff type is password and reveal
\* is on, else as the supplied type; reveal starts off, each click on the
\* reveal toggle flips it, changes no value and fires no callback.
C13_PasswordReveal ==
    /\ field.showPassword = FALSE
    /\ [](fieldDom.type = IF field.type = "password" /\ field.showPassword
                          THEN "text" ELSE field.type)
    /\ [][ ClickReveal =>
              /\ field'.showPassword = ~field.showPassword
              /\ field'.value = field.value
              /\ fieldDom'.value = fieldDom.value
              /\ fieldFired' = "none"
         ]_vars

\* The password "secret" revealed as plain text by the reveal toggle
C13_Witness ==
    /\ field.type = "password" /\ field.value = "secret" /\ field.showPassword
    /\ fieldDom.type = "text" /\ fieldDom.value = "secret"
    /\ fieldFired = "none"

\* C14: with loading set the input is disabled whatever the disabled flag
\* and the spinner is in the leading slot; otherwise the input is disabled
\* iff the disabled flag is set and there is no spinner.
C14_LoadingDisables ==
    /\ field.loading => (fieldDom.disabled /\ fieldDom.leftIcon = {"Loader2"})
    /\ ~field.loading =>
          ((fieldDom.disabled <=> field.disabled) /\ fieldDom.leftIcon = {})

\* Loading with the disabled flag off, after a keystroke
C14_Witness ==
    /\ field.loading /\ ~field.disabled /\ field.value = "hunter2"
    /\ fieldDom.disabled /\ fieldDom.leftIcon = {"Loader2"}

\* C15: the message shown is the error text if invalid is set and a
\* non-empty error text is supplied, else the helper text if a non-empty one
\* is supplied, else nothing; never both.
C15_MessagePrecedence ==
    /\ Cardinality(fieldDom.message) <= 1
    /\ (field.invalid /\ field.errorMessage \notin {<<>>, <<"">>}) =>
          fieldDom.message = {[kind |-> "error", text |-> field.errorMessage[1]]}
    /\ (~(field.invalid /\ field.errorMessage \notin {<<>>, <<"">>})
          /\ field.helperText \notin {<<>>, <<"">>}) =>
          fieldDom.message = {[kind |-> "helper", text |-> field.helperText[1]]}
    /\ (~(field.invalid /\ field.errorMessage \notin {<<>>, <<"">>})
          /\ field.helperText \in {<<>>, <<"">>}) =>
          fieldDom.message = {}

\* Invalid without an error text: the helper text is shown
C15_Witness ==
    /\ field.invalid /\ field.errorMessage = <<>> /\ field.helperText = <<"Hint">>
    /\ fieldDom.message = {[kind |-> "helper", text |-> "Hint"]}
    /\ fieldFired = "onClear"

====
